---- MODULE Spec2Model ----
(***************************************************************************)
(* Assembly of a pandas dataframe agent:                                   *)
(* libs/experimental/langchain_experimental/agents/agent_toolkits/pandas/  *)
(* base.py.  One call of create_pandas_dataframe_agent is followed through *)
(* its dispatch, the validation in _get_prompt_and_tools and               *)
(* _get_functions_prompt_and_tools, the four prompt builders, the merge of *)
(* the extra tools and the final AgentExecutor wrapper.                    *)
(*                                                                         *)
(* Strings are sequences of tokens.  A token written "{name}" is a         *)
(* replacement field of str.format / of a prompt template; every other     *)
(* token is literal text.  Text that came out of a substitution is flat    *)
(* text again, exactly as in Python.                                       *)
(***************************************************************************)
EXTENDS Integers, Sequences, FiniteSets, TLC

VARIABLES
    pc,             \* position of the call inside create_pandas_dataframe_agent
    call,           \* the arguments of the call in progress (and the environment)
    prefix,         \* local `prefix` of _get_functions_multi_prompt
    suffix_to_use,  \* local `suffix_to_use` of _get_functions_multi_prompt
    formatLog,      \* the str.format calls _get_functions_multi_prompt has made, in order
    prompt,         \* local `prompt` of create_pandas_dataframe_agent
    base_tools,     \* local `base_tools` (function-call branches)
    input_variables,\* local `input_variables` of _get_multi_prompt / _get_single_prompt
    tools,          \* local `tools`
    agent,          \* local `agent`
    executor,       \* the AgentExecutor returned
    error           \* the exception raised, "none" while there is none

vars == <<pc, call, prefix, suffix_to_use, formatLog, prompt, base_tools,
          input_variables, tools, agent, executor, error>>

-----------------------------------------------------------------------------
(* Bounds of the model *)

MaxDfs == 2
MaxExtra == 2

-----------------------------------------------------------------------------
(* Values *)

\* Python's None for an optional string or list argument.
None == <<"None">>

Range(s) == {s[i] : i \in 1..Len(s)}

SeqsUpTo(S, n) == UNION {[1..k -> S] : k \in 0..n}

\* Objects for which isinstance(obj, pd.DataFrame) holds.
DataFrames == {"d1", "d2"}

\* An object that is neither a list nor a DataFrame.
NotADataFrame == "x"

Items == DataFrames \cup {NotADataFrame}

\* The `df` argument: one object, or a list of objects.
DfArgs ==
    {[isList |-> FALSE, items |-> <<i>>] : i \in Items}
        \cup {[isList |-> TRUE, items |-> s] : s \in SeqsUpTo(Items, MaxDfs)}

AgentTypes ==
    {"zero-shot-react-description", "openai-functions", "openai-tools",
     "chat-zero-shot-react-description"}

PrefixArgs == {None, <<"P", "{num_dfs}">>, <<"P", "{df_head}">>}

SuffixArgs == {None, <<"S", "{df_head}">>, <<"S", "{dfs_head}">>}

InputVariablesArgs ==
    {None,
     <<"input", "agent_scratchpad">>,
     <<"input", "agent_scratchpad", "dfs_head">>,
     <<"input", "agent_scratchpad", "num_dfs", "df_head">>}

\* Optional[bool]
IncludeArgs == {"None", "True", "False"}

ExtraTool(n) == [name |-> n, locals |-> <<>>]

ExtraToolsArgs == SeqsUpTo({ExtraTool("t1"), ExtraTool("t2")}, MaxExtra)

\* A DataFrame object exists only in a process that has pandas.
CallArgs ==
    {c \in [agent_type : AgentTypes, df : DfArgs, prefix : PrefixArgs,
            suffix : SuffixArgs, input_variables : InputVariablesArgs,
            include_df_in_prompt : IncludeArgs, extra_tools : ExtraToolsArgs,
            pandas_installed : BOOLEAN] :
        (Range(c.df.items) \cap DataFrames # {}) => c.pandas_installed}

NoCall ==
    [agent_type |-> "none", df |-> [isList |-> TRUE, items |-> <<>>],
     prefix |-> None, suffix |-> None, input_variables |-> None,
     include_df_in_prompt |-> "None", extra_tools |-> <<>>,
     pandas_installed |-> FALSE]

NoPrompt == [kind |-> "none"]
NoAgent == [kind |-> "none"]
NoExecutor == [agent |-> NoAgent, tools |-> <<>>]

\* Truth value of an Optional[bool] in `if x:` / `elif x:`.
Truthy(b) == b = "True"

-----------------------------------------------------------------------------
(* The built-in templates of pandas/prompt.py *)

PREFIX == <<"PREFIX">>
MULTI_DF_PREFIX == <<"MULTI_DF_PREFIX", "{num_dfs}">>
SUFFIX_NO_DF == <<"SUFFIX", "{input}", "{agent_scratchpad}">>
SUFFIX_WITH_DF == <<"SUFFIX_DF", "{df_head}", "{input}", "{agent_scratchpad}">>
SUFFIX_WITH_MULTI_DF == <<"SUFFIX_DFS", "{dfs_head}", "{input}", "{agent_scratchpad}">>
PREFIX_FUNCTIONS == <<"PREFIX_FUNCTIONS">>
MULTI_DF_PREFIX_FUNCTIONS == <<"MULTI_DF_PREFIX_FUNCTIONS", "{num_dfs}">>
FUNCTIONS_WITH_DF == <<"FUNCTIONS_DF", "{df_head}">>
FUNCTIONS_WITH_MULTI_DF == <<"FUNCTIONS_DFS", "{dfs_head}">>

-----------------------------------------------------------------------------
(* Strings *)

RECURSIVE Flatten(_)
Flatten(ss) == IF ss = <<>> THEN <<>> ELSE Head(ss) \o Flatten(Tail(ss))

IsField(tok) ==
    tok \in {"{num_dfs}", "{dfs_head}", "{df_head}", "{input}", "{agent_scratchpad}"}

\* template.format(**kw) raises KeyError for a replacement field kw does not name.
FormatRaises(template, kw) ==
    \E i \in 1..Len(template) : IsField(template[i]) /\ template[i] \notin DOMAIN kw

\* template.format(**kw): every field is replaced by its value, the text of
\* the value is not scanned again.
Format(template, kw) ==
    Flatten([i \in 1..Len(template) |->
                IF template[i] \in DOMAIN kw THEN kw[template[i]] ELSE <<template[i]>>])

\* str(n)
Str(n) == <<ToString(n)>>

\* d.head(number_of_head_rows).to_markdown(): the table of d as text.  The
\* cells of d2 hold the text "{num_dfs}".
ToMarkdown(d) == IF d = "d2" THEN <<"md:d2", "{num_dfs}">> ELSE <<"md:d1">>

\* "\n\n".join([d.head(number_of_head_rows).to_markdown() for d in dfs])
RECURSIVE JoinHeads(_)
JoinHeads(dfs) ==
    IF dfs = <<>> THEN <<>>
    ELSE IF Len(dfs) = 1 THEN ToMarkdown(dfs[1])
    ELSE ToMarkdown(dfs[1]) \o <<"\n\n">> \o JoinHeads(Tail(dfs))

-----------------------------------------------------------------------------
(* Collaborators outside base.py *)

\* PythonAstREPLTool(locals=...)
PythonAstREPLTool(locals) == [name |-> "python_repl_ast", locals |-> locals]

\* ZeroShotAgent.create_prompt(tools, prefix=, suffix=, input_variables=): the
\* tool descriptions and the format instructions are rendered between prefix
\* and suffix.
CreatePrompt(tls, pfx, sfx, iv) ==
    [kind |-> "template",
     template |-> pfx \o [i \in 1..Len(tls) |-> tls[i].name]
                      \o <<"FORMAT_INSTRUCTIONS">> \o sfx,
     input_variables |-> iv,
     partial_variables |-> <<>>]

\* prompt.partial(**kw): kw is merged over the partial variables and its names
\* leave the open input variables.
Partial(p, kw) ==
    [p EXCEPT !.input_variables = SelectSeq(@, LAMBDA v : v \notin DOMAIN kw),
              !.partial_variables = kw @@ @]

\* OpenAIFunctionsAgent.create_prompt(system_message=SystemMessage(content=...))
SystemPrompt(content) == [kind |-> "system", content |-> content]

\* create_react_agent / create_openai_functions_agent / create_openai_tools_agent
CreateAgent(kind, tls, p) == [kind |-> kind, tools |-> tls, prompt |-> p]

\* AgentExecutor.from_agent_and_tools(agent=agent, tools=tools, ...)
FromAgentAndTools(a, tls) == [agent |-> a, tools |-> tls]

-----------------------------------------------------------------------------
(* Validation shared by _get_prompt_and_tools and                          *)
(* _get_functions_prompt_and_tools                                         *)

\* variant: the conflict is seen only when the flag is true (`if include_df_in_prompt and ...`)
SuffixConflictTrueOnly(suffix, include) == Truthy(include) /\ suffix # None

\* include_df_in_prompt is not None and suffix is not None
SuffixConflict(suffix, include) == include # "None" /\ suffix # None

\* variant: the input_variables check is missing
InputVariablesIgnored(iv) == FALSE

\* input_variables is not None
InputVariablesGiven(iv) == iv # None

\* some item of the list (or the object itself) fails isinstance(_, pd.DataFrame)
NotAllDataFrames(df) == \E i \in 1..Len(df.items) : df.items[i] \notin DataFrames

-----------------------------------------------------------------------------
(* Variable bindings *)

\* f"df{i + 1}" for the i-th dataframe, counted here from 1
DfName(i) == "df" \o ToString(i)

\* variant: the dataframes are numbered from the end of the list
MultiLocalsReversed(dfs) ==
    [k \in {DfName(i) : i \in 1..Len(dfs)} |->
        dfs[Len(dfs) + 1 - (CHOOSE i \in 1..Len(dfs) : DfName(i) = k)]]

\* df_locals of _get_multi_prompt and _get_functions_multi_prompt
MultiLocals(dfs) ==
    [k \in {DfName(i) : i \in 1..Len(dfs)} |->
        dfs[CHOOSE i \in 1..Len(dfs) : DfName(i) = k]]

\* locals={"df": df}
SingleLocals(d) == [k \in {"df"} |-> d]

-----------------------------------------------------------------------------
(* _get_multi_prompt and _get_single_prompt *)

MultiSuffixToUse(suffix, include) ==
    IF suffix # None THEN suffix
    ELSE IF Truthy(include) THEN SUFFIX_WITH_MULTI_DF
    ELSE SUFFIX_NO_DF

SingleSuffixToUse(suffix, include) ==
    IF suffix # None THEN suffix
    ELSE IF Truthy(include) THEN SUFFIX_WITH_DF
    ELSE SUFFIX_NO_DF

\* include_dfs_head / include_df_head
IncludeHead(suffix, include) == suffix # None \/ Truthy(include)

\* variant: num_dfs joins the default list only together with dfs_head
MultiInputVariablesNoCount(iv, include_dfs_head) ==
    IF iv # None THEN iv
    ELSE <<"input", "agent_scratchpad">>
            \o (IF include_dfs_head THEN <<"num_dfs", "dfs_head">> ELSE <<>>)

MultiInputVariables(iv, include_dfs_head) ==
    IF iv # None THEN iv
    ELSE <<"input", "agent_scratchpad", "num_dfs">>
            \o (IF include_dfs_head THEN <<"dfs_head">> ELSE <<>>)

SingleInputVariables(iv, include_df_head) ==
    IF iv # None THEN iv
    ELSE <<"input", "agent_scratchpad">>
            \o (IF include_df_head THEN <<"df_head">> ELSE <<>>)

\* variant: the `if "num_dfs" in input_variables` step is missing
MultiPartialHeadOnly(p, iv, dfs) ==
    IF "dfs_head" \in Range(iv)
    THEN Partial(p, ("num_dfs" :> Str(Len(dfs))) @@ ("dfs_head" :> JoinHeads(dfs)))
    ELSE p

\* the two `if ... in input_variables` steps of _get_multi_prompt
MultiPartial(p, iv, dfs) ==
    LET p1 == IF "dfs_head" \in Range(iv)
              THEN Partial(p, ("num_dfs" :> Str(Len(dfs)))
                                @@ ("dfs_head" :> JoinHeads(dfs)))
              ELSE p
    IN  IF "num_dfs" \in Range(iv)
        THEN Partial(p1, "num_dfs" :> Str(Len(dfs)))
        ELSE p1

\* the `if "df_head" in input_variables` step of _get_single_prompt
SinglePartial(p, iv, d) ==
    IF "df_head" \in Range(iv)
    THEN Partial(p, "df_head" :> ToMarkdown(d))
    ELSE p

\* [PythonAstREPLTool(locals=...)] + list(extra_tools)
WithExtraTools(tool, extra) == <<tool>> \o extra

-----------------------------------------------------------------------------
(* _get_functions_single_prompt, and the pieces of                         *)
(* _get_functions_multi_prompt                                             *)

DfHeadKw(d) == "{df_head}" :> ToMarkdown(d)
DfsHeadKw(dfs) == "{dfs_head}" :> JoinHeads(dfs)
NumDfsKw(dfs) == "{num_dfs}" :> Str(Len(dfs))

\* whether the suffix selection calls str.format
FunctionsSuffixFormats(suffix, include) == Truthy(include)

\* the template the suffix selection starts from
FunctionsSuffixTemplate(suffix, builtin) == IF suffix # None THEN suffix ELSE builtin

\* suffix_to_use, given the keyword of the preview
FunctionsSuffixToUse(suffix, include, builtin, kw) ==
    IF FunctionsSuffixFormats(suffix, include)
    THEN Format(FunctionsSuffixTemplate(suffix, builtin), kw)
    ELSE IF suffix # None THEN suffix ELSE <<>>

\* variant: list(extra_tools) + list(base_tools)
ExtraToolsBeforeBase(base, extra) == extra \o base

\* tools = list(base_tools) + list(extra_tools)
AppendExtraTools(base, extra) == base \o extra

-----------------------------------------------------------------------------
(* Dispatch of create_pandas_dataframe_agent *)

\* variant: the final else falls back to the text-action branch
RouteDefaultingToReact(agent_type) ==
    IF agent_type \in {"openai-functions", "openai-tools"}
    THEN "_get_functions_prompt_and_tools"
    ELSE "_get_prompt_and_tools"

\* the if / elif / elif / else on agent_type
Route(agent_type) ==
    IF agent_type = "zero-shot-react-description" THEN "_get_prompt_and_tools"
    ELSE IF agent_type \in {"openai-functions", "openai-tools"}
    THEN "_get_functions_prompt_and_tools"
    ELSE "raise"

-----------------------------------------------------------------------------
(* The call *)

Init ==
    /\ pc = "idle"
    /\ call = NoCall
    /\ prefix = None
    /\ suffix_to_use = None
    /\ formatLog = <<>>
    /\ prompt = NoPrompt
    /\ base_tools = <<>>
    /\ input_variables = None
    /\ tools = <<>>
    /\ agent = NoAgent
    /\ executor = NoExecutor
    /\ error = "none"

\* the locals of the call, as they are when an exception leaves them behind
locals == <<call, prefix, suffix_to_use, formatLog, prompt, base_tools,
            input_variables, tools, agent, executor>>

\* raise ...: nothing is caught anywhere in base.py but the ImportError
Raise(e) ==
    /\ pc' = "raised"
    /\ error' = e
    /\ UNCHANGED locals

Goto(label) ==
    /\ pc' = label
    /\ UNCHANGED <<error, locals>>

\* create_pandas_dataframe_agent(llm, df, agent_type, ...) is called
Call ==
    /\ pc = "idle"
    /\ \E c \in CallArgs : call' = c
    /\ pc' = "create_pandas_dataframe_agent"
    /\ UNCHANGED <<prefix, suffix_to_use, formatLog, prompt, base_tools,
                   input_variables, tools, agent, executor, error>>

Dispatch ==
    /\ pc = "create_pandas_dataframe_agent"
    /\ IF Route(call.agent_type) = "raise"
       THEN Raise("UnsupportedProtocol")
       ELSE Goto(Route(call.agent_type))

GetPromptAndTools ==
    /\ pc = "_get_prompt_and_tools"
    /\ IF ~call.pandas_installed
       THEN Raise("MissingDependency")
       ELSE IF SuffixConflict(call.suffix, call.include_df_in_prompt)
       THEN Raise("ConfigurationConflict")
       ELSE IF NotAllDataFrames(call.df)
       THEN Raise("TypeMismatch")
       ELSE IF call.df.isList
       THEN Goto("_get_multi_prompt")
       ELSE Goto("_get_single_prompt")

GetMultiPrompt ==
    /\ pc = "_get_multi_prompt"
    /\ LET dfs == call.df.items
           sfx == MultiSuffixToUse(call.suffix, call.include_df_in_prompt)
           iv  == MultiInputVariables(
                      call.input_variables,
                      IncludeHead(call.suffix, call.include_df_in_prompt))
           pfx == IF call.prefix = None THEN MULTI_DF_PREFIX ELSE call.prefix
           tls == WithExtraTools(PythonAstREPLTool(MultiLocals(dfs)),
                                 call.extra_tools)
       IN  /\ input_variables' = iv
           /\ tools' = tls
           /\ prompt' = MultiPartial(CreatePrompt(tls, pfx, sfx, iv), iv, dfs)
    /\ pc' = "create_react_agent"
    /\ UNCHANGED <<call, prefix, suffix_to_use, formatLog, base_tools, agent,
                   executor, error>>

GetSinglePrompt ==
    /\ pc = "_get_single_prompt"
    /\ LET d   == call.df.items[1]
           sfx == SingleSuffixToUse(call.suffix, call.include_df_in_prompt)
           iv  == SingleInputVariables(
                      call.input_variables,
                      IncludeHead(call.suffix, call.include_df_in_prompt))
           pfx == IF call.prefix = None THEN PREFIX ELSE call.prefix
           tls == WithExtraTools(PythonAstREPLTool(SingleLocals(d)),
                                 call.extra_tools)
       IN  /\ input_variables' = iv
           /\ tools' = tls
           /\ prompt' = SinglePartial(CreatePrompt(tls, pfx, sfx, iv), iv, d)
    /\ pc' = "create_react_agent"
    /\ UNCHANGED <<call, prefix, suffix_to_use, formatLog, base_tools, agent,
                   executor, error>>

CreateReactAgent ==
    /\ pc = "create_react_agent"
    /\ agent' = CreateAgent("react", tools, prompt)
    /\ pc' = "from_agent_and_tools"
    /\ UNCHANGED <<call, prefix, suffix_to_use, formatLog, prompt, base_tools,
                   input_variables, tools, executor, error>>

GetFunctionsPromptAndTools ==
    /\ pc = "_get_functions_prompt_and_tools"
    /\ IF ~call.pandas_installed
       THEN Raise("MissingDependency")
       ELSE IF InputVariablesGiven(call.input_variables)
       THEN Raise("UnsupportedOption")
       ELSE IF SuffixConflict(call.suffix, call.include_df_in_prompt)
       THEN Raise("ConfigurationConflict")
       ELSE IF NotAllDataFrames(call.df)
       THEN Raise("TypeMismatch")
       ELSE IF call.df.isList
       THEN Goto("_get_functions_multi_prompt")
       ELSE Goto("_get_functions_single_prompt")

GetFunctionsSinglePrompt ==
    /\ pc = "_get_functions_single_prompt"
    /\ LET d   == call.df.items[1]
           pfx == IF call.prefix = None THEN PREFIX_FUNCTIONS ELSE call.prefix
       IN  IF /\ FunctionsSuffixFormats(call.suffix, call.include_df_in_prompt)
              /\ FormatRaises(FunctionsSuffixTemplate(call.suffix, FUNCTIONS_WITH_DF),
                              DfHeadKw(d))
           THEN Raise("KeyError")
           ELSE /\ base_tools' = <<PythonAstREPLTool(SingleLocals(d))>>
                /\ prompt' = SystemPrompt(
                       pfx \o FunctionsSuffixToUse(
                                  call.suffix, call.include_df_in_prompt,
                                  FUNCTIONS_WITH_DF, DfHeadKw(d)))
                /\ pc' = "append_extra_tools"
                /\ UNCHANGED <<call, prefix, suffix_to_use, formatLog,
                               input_variables, tools, agent, executor, error>>

\* _get_functions_multi_prompt, the if / elif / else that selects suffix_to_use
FunctionsMultiSuffix ==
    /\ pc = "_get_functions_multi_prompt"
    /\ LET dfs == call.df.items
           fmt == FunctionsSuffixFormats(call.suffix, call.include_df_in_prompt)
       IN  IF /\ fmt
              /\ FormatRaises(
                     FunctionsSuffixTemplate(call.suffix, FUNCTIONS_WITH_MULTI_DF),
                     DfsHeadKw(dfs))
           THEN Raise("KeyError")
           ELSE /\ suffix_to_use' = FunctionsSuffixToUse(
                       call.suffix, call.include_df_in_prompt,
                       FUNCTIONS_WITH_MULTI_DF, DfsHeadKw(dfs))
                /\ formatLog' = IF fmt THEN Append(formatLog, "suffix.format(dfs_head)")
                                ELSE formatLog
                /\ pc' = "prefix.format"
                /\ UNCHANGED <<call, prefix, prompt, base_tools, input_variables,
                               tools, agent, executor, error>>

\* variant: the count is substituted into prefix and suffix_to_use alike
FunctionsMultiPrefixAlsoSuffix ==
    /\ pc = "prefix.format"
    /\ LET dfs == call.df.items
           pfx == IF call.prefix = None THEN MULTI_DF_PREFIX_FUNCTIONS
                  ELSE call.prefix
       IN  IF FormatRaises(pfx, NumDfsKw(dfs))
           THEN Raise("KeyError")
           ELSE /\ prefix' = Format(pfx, NumDfsKw(dfs))
                /\ suffix_to_use' = Format(suffix_to_use, NumDfsKw(dfs))
                /\ formatLog' = Append(formatLog, "prefix.format(num_dfs)")
                /\ pc' = "df_locals"
                /\ UNCHANGED <<call, prompt, base_tools, input_variables, tools,
                               agent, executor, error>>

\* _get_functions_multi_prompt, the default of prefix and prefix.format(num_dfs=...)
FunctionsMultiPrefix ==
    /\ pc = "prefix.format"
    /\ LET dfs == call.df.items
           pfx == IF call.prefix = None THEN MULTI_DF_PREFIX_FUNCTIONS
                  ELSE call.prefix
       IN  IF FormatRaises(pfx, NumDfsKw(dfs))
           THEN Raise("KeyError")
           ELSE /\ prefix' = Format(pfx, NumDfsKw(dfs))
                /\ formatLog' = Append(formatLog, "prefix.format(num_dfs)")
                /\ pc' = "df_locals"
                /\ UNCHANGED <<call, suffix_to_use, prompt, base_tools,
                               input_variables, tools, agent, executor, error>>

\* _get_functions_multi_prompt, from df_locals to the return
FunctionsMultiTools ==
    /\ pc = "df_locals"
    /\ base_tools' = <<PythonAstREPLTool(MultiLocals(call.df.items))>>
    /\ prompt' = SystemPrompt(prefix \o suffix_to_use)
    /\ pc' = "append_extra_tools"
    /\ UNCHANGED <<call, prefix, suffix_to_use, formatLog, input_variables,
                   tools, agent, executor, error>>

\* tools = list(base_tools) + list(extra_tools), then
\* create_openai_functions_agent or create_openai_tools_agent
CreateFunctionsAgent ==
    /\ pc = "append_extra_tools"
    /\ tools' = AppendExtraTools(base_tools, call.extra_tools)
    /\ agent' = CreateAgent(call.agent_type, tools', prompt)
    /\ pc' = "from_agent_and_tools"
    /\ UNCHANGED <<call, prefix, suffix_to_use, formatLog, prompt, base_tools,
                   input_variables, executor, error>>

WrapInExecutor ==
    /\ pc = "from_agent_and_tools"
    /\ executor' = FromAgentAndTools(agent, tools)
    /\ pc' = "returned"
    /\ UNCHANGED <<call, prefix, suffix_to_use, formatLog, prompt, base_tools,
                   input_variables, tools, agent, error>>

\* the call is over: its locals are gone, the next call starts afresh
Finish ==
    /\ pc \in {"returned", "raised"}
    /\ pc' = "idle"
    /\ call' = NoCall
    /\ prefix' = None
    /\ suffix_to_use' = None
    /\ formatLog' = <<>>
    /\ prompt' = NoPrompt
    /\ base_tools' = <<>>
    /\ input_variables' = None
    /\ tools' = <<>>
    /\ agent' = NoAgent
    /\ executor' = NoExecutor
    /\ error' = "none"

Next ==
    \/ Call
    \/ Dispatch
    \/ GetPromptAndTools
    \/ GetMultiPrompt
    \/ GetSinglePrompt
    \/ CreateReactAgent
    \/ GetFunctionsPromptAndTools
    \/ GetFunctionsSinglePrompt
    \/ FunctionsMultiSuffix
    \/ FunctionsMultiPrefix
    \/ FunctionsMultiTools
    \/ CreateFunctionsAgent
    \/ WrapInExecutor
    \/ Finish

Spec == Init /\ [][Next]_vars

-----------------------------------------------------------------------------
(* Vocabulary of the properties *)

KnownProtocols == {"zero-shot-react-description", "openai-functions", "openai-tools"}
FunctionCallProtocols == {"openai-functions", "openai-tools"}

\* the call is over, with an executor or with an exception
Over == pc \in {"returned", "raised"}

\* the dataset argument holds N >= 1 datasets and nothing else
HoldsDatasets ==
    /\ Len(call.df.items) >= 1
    /\ \A i \in 1..Len(call.df.items) : call.df.items[i] \in DataFrames

\* the names df1, df2, ... written out
DfNames == <<"df1", "df2", "df3", "df4">>

\* the variable bindings of the execution tool of the returned executor
Bindings == executor.tools[1].locals

\* nothing of an assembly exists
NothingCreated ==
    /\ base_tools = <<>>
    /\ tools = <<>>
    /\ prompt = NoPrompt
    /\ agent = NoAgent
    /\ executor = NoExecutor

-----------------------------------------------------------------------------
\* C1 (as claimed): for N >= 1 datasets and each protocol the bindings of the
\* execution tool have the key set {"df"} iff N = 1, and otherwise are exactly
\* df1..dfN in input order; a list of exactly one dataset is bound as "df".
C1_AsClaimed ==
    (pc = "returned" /\ HoldsDatasets) =>
        LET items == call.df.items
            N == Len(items)
        IN  IF N = 1
            THEN Bindings = ("df" :> items[1])
            ELSE /\ DOMAIN Bindings = {DfNames[i] : i \in 1..N}
                 /\ \A i \in 1..N : Bindings[DfNames[i]] = items[i]

\* C1 (amended): the bindings are {"df": dataset} iff the argument is a single
\* dataset that is not a list; a list of N >= 1 datasets is bound as exactly
\* df1..dfN, df(i+1) being the i-th dataset, also when N = 1 (key "df1").
C1_Bindings ==
    (pc = "returned" /\ HoldsDatasets) =>
        LET items == call.df.items
            N == Len(items)
        IN  /\ Len(executor.tools) >= 1
            /\ executor.tools[1].name = "python_repl_ast"
            /\ IF call.df.isList
               THEN /\ DOMAIN Bindings = {DfNames[i] : i \in 1..N}
                    /\ \A i \in 1..N : Bindings[DfNames[i]] = items[i]
                    /\ "df" \notin DOMAIN Bindings
               ELSE Bindings = ("df" :> items[1])

C1_Witness ==
    /\ pc = "returned"
    /\ call.df = [isList |-> TRUE, items |-> <<"d2">>]
    /\ Bindings = ("df1" :> "d2")

-----------------------------------------------------------------------------
\* C2 (as claimed): for each known protocol and every cardinality, a non-null
\* suffix with an include-preview flag that is set (true or false) fails with
\* the configuration-conflict error and returns no agent; with a non-null
\* suffix and a null flag that error is not raised.
C2_AsClaimed ==
    (Over /\ call.agent_type \in KnownProtocols /\ HoldsDatasets
          /\ call.suffix # None) =>
        IF call.include_df_in_prompt # "None"
        THEN pc = "raised" /\ error = "ConfigurationConflict" /\ executor = NoExecutor
        ELSE error # "ConfigurationConflict"

\* C2 (amended): such a call always fails and returns no agent; the error is
\* the configuration conflict, except under a function-call protocol with an
\* input-variable list supplied, where the unsupported-option error is raised
\* first.  With a non-null suffix and a null flag the conflict is not raised.
C2_Conflict ==
    (Over /\ call.agent_type \in KnownProtocols /\ HoldsDatasets
          /\ call.suffix # None) =>
        IF call.include_df_in_prompt # "None"
        THEN /\ pc = "raised"
             /\ executor = NoExecutor
             /\ error = IF /\ call.agent_type \in FunctionCallProtocols
                           /\ call.input_variables # None
                        THEN "UnsupportedOption"
                        ELSE "ConfigurationConflict"
        ELSE error # "ConfigurationConflict"

C2_Witness ==
    /\ pc = "raised"
    /\ error = "ConfigurationConflict"
    /\ call.agent_type = "openai-tools"
    /\ call.suffix # None
    /\ call.include_df_in_prompt = "False"
    /\ HoldsDatasets

-----------------------------------------------------------------------------
\* C3: in every protocol family and for every cardinality, whenever a caller
\* suffix is given and the assembly succeeds, the caller suffix is the suffix
\* source and the preview is in the prompt: the text-action template has
\* df_head / dfs_head pre-filled (default input variables), the function-call
\* system message has the preview substituted into the suffix.
C3_AsClaimed ==
    (pc = "returned" /\ HoldsDatasets /\ call.suffix # None) =>
        LET items == call.df.items
            many == call.df.isList
        IN  IF call.agent_type = "zero-shot-react-description"
            THEN call.input_variables = None =>
                    /\ SubSeq(prompt.template,
                              Len(prompt.template) - Len(call.suffix) + 1,
                              Len(prompt.template)) = call.suffix
                    /\ IF many
                       THEN /\ "dfs_head" \in DOMAIN prompt.partial_variables
                            /\ prompt.partial_variables["dfs_head"] = JoinHeads(items)
                       ELSE /\ "df_head" \in DOMAIN prompt.partial_variables
                            /\ prompt.partial_variables["df_head"] = ToMarkdown(items[1])
            ELSE LET pfx == IF many
                            THEN Format(IF call.prefix = None
                                        THEN MULTI_DF_PREFIX_FUNCTIONS
                                        ELSE call.prefix, NumDfsKw(items))
                            ELSE IF call.prefix = None THEN PREFIX_FUNCTIONS
                                 ELSE call.prefix
                     kw == IF many THEN DfsHeadKw(items) ELSE DfHeadKw(items[1])
                 IN  prompt.content = pfx \o Format(call.suffix, kw)

-----------------------------------------------------------------------------
\* C4 (as claimed): text-action protocol, no input-variable list supplied: the
\* resolved list is ["input", "agent_scratchpad"] when the preview is not
\* included and is extended with "num_dfs", "dfs_head" (multi) or "df_head"
\* (single) only when the preview is included.
C4_AsClaimed ==
    (/\ pc \in {"create_react_agent", "from_agent_and_tools", "returned"}
     /\ call.agent_type = "zero-shot-react-description"
     /\ call.input_variables = None) =>
        LET preview == call.suffix # None \/ call.include_df_in_prompt = "True"
        IN  input_variables =
                IF ~preview THEN <<"input", "agent_scratchpad">>
                ELSE IF call.df.isList
                THEN <<"input", "agent_scratchpad", "num_dfs", "dfs_head">>
                ELSE <<"input", "agent_scratchpad", "df_head">>

\* C4 (amended): for a single dataset the resolved list is
\* ["input", "agent_scratchpad"], extended with "df_head" only when the preview
\* is included; for a list of datasets it is
\* ["input", "agent_scratchpad", "num_dfs"] whether or not the preview is
\* included, extended with "dfs_head" only when it is.
C4_InputVariables ==
    (/\ pc \in {"create_react_agent", "from_agent_and_tools", "returned"}
     /\ call.agent_type = "zero-shot-react-description"
     /\ call.input_variables = None) =>
        LET preview == call.suffix # None \/ call.include_df_in_prompt = "True"
        IN  input_variables =
                IF call.df.isList
                THEN IF preview
                     THEN <<"input", "agent_scratchpad", "num_dfs", "dfs_head">>
                     ELSE <<"input", "agent_scratchpad", "num_dfs">>
                ELSE IF preview
                     THEN <<"input", "agent_scratchpad", "df_head">>
                     ELSE <<"input", "agent_scratchpad">>

C4_Witness ==
    /\ pc = "returned"
    /\ call.agent_type = "zero-shot-react-description"
    /\ call.input_variables = None
    /\ call.df = [isList |-> TRUE, items |-> <<"d1", "d2">>]
    /\ call.include_df_in_prompt = "False"
    /\ input_variables = <<"input", "agent_scratchpad", "num_dfs">>

-----------------------------------------------------------------------------
\* C5: a protocol value other than the three known ones fails with the
\* unsupported-protocol error whatever the other arguments are, and when it
\* fails no execution tool, binding, prompt or agent has been created.
C5_UnsupportedProtocol ==
    (/\ pc \notin {"idle", "create_pandas_dataframe_agent"}
     /\ call.agent_type \notin KnownProtocols) =>
        /\ pc = "raised"
        /\ error = "UnsupportedProtocol"
        /\ NothingCreated

C5_Witness ==
    /\ pc = "raised"
    /\ error = "UnsupportedProtocol"
    /\ call.agent_type \notin KnownProtocols
    /\ call.suffix # None
    /\ call.include_df_in_prompt = "True"
    /\ call.input_variables # None
    /\ NotAllDataFrames(call.df)
    /\ ~call.pandas_installed
    /\ NothingCreated

-----------------------------------------------------------------------------
\* C6: under both function-call protocols, whatever the cardinality and the
\* other options, a non-null input-variable list makes the call fail with the
\* unsupported-option error before any execution tool exists; under the
\* text-action protocol a non-null list never causes that error.
C6_UnsupportedOption ==
    (call.pandas_installed /\ call.input_variables # None) =>
        IF call.agent_type \in FunctionCallProtocols
        THEN /\ NothingCreated
             /\ Over => (pc = "raised" /\ error = "UnsupportedOption")
        ELSE error # "UnsupportedOption"

C6_Witness ==
    /\ pc = "raised"
    /\ error = "UnsupportedOption"
    /\ call.agent_type = "openai-functions"
    /\ call.input_variables # None
    /\ call.suffix # None
    /\ call.include_df_in_prompt = "True"
    /\ NothingCreated

-----------------------------------------------------------------------------
\* C7: for each protocol and every successful assembly the tool list handed to
\* the executor is the execution tool followed by the caller's extra tools in
\* their order; in the function-call protocols the extra tools are appended
\* after the prompt is assembled, in the text-action protocol before.
C7_ToolList ==
    /\ pc = "returned" =>
        /\ Len(executor.tools) = 1 + Len(call.extra_tools)
        /\ executor.tools[1].name = "python_repl_ast"
        /\ SubSeq(executor.tools, 2, Len(executor.tools)) = call.extra_tools
        /\ \A i \in 2..Len(executor.tools) : executor.tools[i].name # "python_repl_ast"
        /\ executor.agent.tools = executor.tools
    /\ (pc = "append_extra_tools" /\ call.agent_type \in FunctionCallProtocols) =>
        /\ prompt # NoPrompt
        /\ Len(base_tools) = 1
        /\ tools = <<>>
    /\ (pc = "create_react_agent" /\ call.agent_type = "zero-shot-react-description") =>
        /\ prompt # NoPrompt
        /\ Len(tools) = 1 + Len(call.extra_tools)

C7_Witness ==
    /\ pc = "returned"
    /\ call.agent_type = "openai-functions"
    /\ call.extra_tools = <<ExtraTool("t2"), ExtraTool("t1")>>
    /\ Len(executor.tools) = 3
    /\ executor.tools[2] = ExtraTool("t2")
    /\ executor.tools[3] = ExtraTool("t1")

-----------------------------------------------------------------------------
\* C8 (as claimed): in the function-call assembly for several datasets the
\* substitution of the count into the prefix happens before the substitution
\* of the preview into the suffix, whenever both happen.
C8_AsClaimed ==
    "suffix.format(dfs_head)" \in Range(formatLog) =>
        formatLog[1] = "prefix.format(num_dfs)"

\* C8 (amended): the substitution of the preview into the suffix happens
\* before the substitution of the count into the prefix, whenever both happen;
\* the count substitution is applied to the prefix alone, the rendered preview
\* is in the system message as it was rendered.
C8_Order ==
    ({"suffix.format(dfs_head)", "prefix.format(num_dfs)"} \subseteq Range(formatLog)) =>
        /\ formatLog = <<"suffix.format(dfs_head)", "prefix.format(num_dfs)">>
        /\ suffix_to_use = <<"FUNCTIONS_DFS">> \o JoinHeads(call.df.items)
        /\ prompt # NoPrompt =>
             /\ Len(prompt.content) = Len(prefix) + Len(suffix_to_use)
             /\ SubSeq(prompt.content, Len(prefix) + 1, Len(prompt.content))
                    = <<"FUNCTIONS_DFS">> \o JoinHeads(call.df.items)

C8_Witness ==
    /\ pc = "returned"
    /\ call.agent_type = "openai-tools"
    /\ call.df = [isList |-> TRUE, items |-> <<"d1", "d2">>]
    /\ formatLog = <<"suffix.format(dfs_head)", "prefix.format(num_dfs)">>
    /\ prompt.content = <<"MULTI_DF_PREFIX_FUNCTIONS", "2", "FUNCTIONS_DFS",
                          "md:d1", "\n\n", "md:d2", "{num_dfs}">>

-----------------------------------------------------------------------------
\* C9: no successful call produces an execution tool with zero variable
\* bindings: an empty list as the dataset argument is rejected.
C9_AsClaimed ==
    pc = "returned" => DOMAIN Bindings # {}

-----------------------------------------------------------------------------
\* C10 (as claimed): text-action protocol: a slot among num_dfs, dfs_head and
\* df_head is pre-filled iff it appears in the resolved input-variable list;
\* input and agent_scratchpad are never pre-filled.
C10_AsClaimed ==
    (/\ pc \in {"create_react_agent", "from_agent_and_tools", "returned"}
     /\ call.agent_type = "zero-shot-react-description"
     /\ HoldsDatasets) =>
        /\ \A slot \in {"num_dfs", "dfs_head", "df_head"} :
              slot \in DOMAIN prompt.partial_variables
                  <=> slot \in Range(input_variables)
        /\ DOMAIN prompt.partial_variables \cap {"input", "agent_scratchpad"} = {}

\* C10 (amended): for a list of datasets dfs_head is pre-filled iff it is in
\* the resolved list, num_dfs iff num_dfs or dfs_head is in it, df_head never;
\* for a single dataset df_head is pre-filled iff it is in the list, num_dfs
\* and dfs_head never.  input and agent_scratchpad are never pre-filled and
\* stay open.
C10_Partials ==
    (/\ pc \in {"create_react_agent", "from_agent_and_tools", "returned"}
     /\ call.agent_type = "zero-shot-react-description"
     /\ HoldsDatasets) =>
        LET filled == DOMAIN prompt.partial_variables
            listed == Range(input_variables)
        IN  /\ IF call.df.isList
               THEN /\ "dfs_head" \in filled <=> "dfs_head" \in listed
                    /\ "num_dfs" \in filled
                           <=> ("num_dfs" \in listed \/ "dfs_head" \in listed)
                    /\ "df_head" \notin filled
               ELSE /\ "df_head" \in filled <=> "df_head" \in listed
                    /\ "num_dfs" \notin filled
                    /\ "dfs_head" \notin filled
            /\ filled \cap {"input", "agent_scratchpad"} = {}
            /\ \A v \in {"input", "agent_scratchpad"} :
                  v \in listed => v \in Range(prompt.input_variables)
            /\ \A v \in filled : v \notin Range(prompt.input_variables)

C10_Witness ==
    /\ pc = "returned"
    /\ call.agent_type = "zero-shot-react-description"
    /\ call.df = [isList |-> TRUE, items |-> <<"d1", "d2">>]
    /\ input_variables = <<"input", "agent_scratchpad", "dfs_head">>
    /\ DOMAIN prompt.partial_variables = {"num_dfs", "dfs_head"}
    /\ Range(prompt.input_variables) = {"input", "agent_scratchpad"}

====
